---- MODULE Spec2Model ----
(***************************************************************************)
(* Ticket issuance (paid "IWSS" route and free route) and the Paystack     *)
(* webhook of spotix-backend, as a state machine over the Firestore        *)
(* documents they read and write.  Every await on the store is one step,   *)
(* so that concurrent requests interleave exactly where the code yields.   *)
(***************************************************************************)
EXTENDS Integers, Sequences, FiniteSets, TLC

\* ------------------------------------------------------------------ bounds

\* issuance requests handled in one behaviour (each slot serves one request)
NumCalls == 2
\* webhook deliveries that interleave with issuance requests in one behaviour
NumHooks == 1
\* webhook deliveries that interleave with each other in one behaviour
NumDeliveries == 2
\* store operations that throw in one behaviour
MaxFaults == 1
\* issuance requests followed through a failing identifier transaction
NumTxCalls == 1
\* bank-resolution requests handled in one behaviour
NumLookups == 1
\* reads of the Reference status one request is followed for
MaxReads == 4
\* times the store re-runs a conflicting transaction body before it gives up
MaxTxRetries == 1

\* ------------------------------------------------------- program constants

\* const maxAttempts = 3
maxAttempts == 3

Undefined == "<undefined>"
Null == "<null>"

PaidPrefix == "SPTX-REF-"
FreePrefix == "SPTX-FREE-"

\* process.env.PAYSTACK_SECRET_KEY
PAYSTACK_SECRET_KEY == "sk_live"

Calls == 1..NumCalls
Hooks == 1..NumHooks
Deliveries == 1..NumDeliveries
TxCalls == 1..NumTxCalls
Lookups == 1..NumLookups

\* ------------------------------------------------------------ JS helpers

\* String.prototype.startsWith
StartsWith(s, prefix) ==
  /\ Len(s) >= Len(prefix)
  /\ SubSeq(s, 1, Len(prefix)) = prefix

\* a || b on strings: undefined, null and "" are falsy
OrElse(a, b) == IF a \in {Undefined, Null, ""} THEN b ELSE a

\* if (a) on a string or absent value: undefined, null and "" are falsy
Truthy(a) == a \notin {Undefined, Null, ""}

\* crypto.createHmac("sha512", key).update(msg).digest("hex"): the digest is
\* determined by key and message, and differs when either differs
Hmac(key, msg) == [alg |-> "sha512", key |-> key, msg |-> msg]

\* docRef.set(data): creates or replaces the document at key
SetDoc(coll, key, data) ==
  (key :> data) @@ coll

\* ----------------------------------------------------------- the documents

\* The Reference documents the initiating flow has created (the flow itself is
\* outside this repository): one paid reference and one free reference.
PaidRef == "SPTX-REF-1"
FreeRef == "SPTX-FREE-1"
UnknownRef == "SPTX-REF-9"
RefKeys == {PaidRef, FreeRef}

TheUser == "u1"
TheEvent == "e1"
TheCreator == "c1"
TheReferral == "PROMO"

\* the snapshot attributes copied into a Reference at creation time
NewReference(status, vendor, price, fee) ==
  [ status |-> status, vendor |-> vendor,
    ticketId |-> Undefined, ticketIdGeneratedAt |-> Undefined,
    ticketGenerated |-> FALSE, ticketGeneratedAt |-> Undefined,
    updatedAt |-> Undefined,
    userId |-> TheUser, ticketType |-> "Regular",
    ticketPrice |-> price, transactionFee |-> fee, totalAmount |-> price + fee,
    discountCode |-> Undefined, referralCode |-> TheReferral,
    referralName |-> Undefined,
    eventId |-> TheEvent, eventName |-> "Launch", eventCreatorId |-> TheCreator,
    paystackEvent |-> Undefined, transactionType |-> Undefined, amount |-> Undefined ]

UserDoc == [fullName |-> "Ada", email |-> "ada@example.com"]

\* what a request holds before it has read anything
NoData == [status |-> Undefined]

\* paymentData = referenceDoc.data(): the fields of the document that the
\* handlers go on to read (the others are never looked at again)
Snapshot(doc) ==
  [ status |-> doc.status, vendor |-> doc.vendor, userId |-> doc.userId,
    ticketType |-> doc.ticketType, ticketPrice |-> doc.ticketPrice,
    transactionFee |-> doc.transactionFee, totalAmount |-> doc.totalAmount,
    discountCode |-> doc.discountCode, referralCode |-> doc.referralCode,
    referralName |-> doc.referralName, eventId |-> doc.eventId,
    eventName |-> doc.eventName, eventCreatorId |-> doc.eventCreatorId ]

IdleCall ==
  [ pc |-> "idle", kind |-> "none", reference |-> Undefined, attempts |-> 0,
    paymentData |-> NoData, ticketId |-> Null, pending |-> FALSE, stale |-> FALSE,
    tries |-> 0, code |-> 0, error |-> "", body |-> [success |-> FALSE],
    reads |-> 0, sleeps |-> 0, effects |-> 0, prior |-> {},
    sideFailed |-> FALSE, input |-> [present |-> FALSE] ]

\* no request yet
NoRequest == [sig |-> [alg |-> "none"]]

IdleHook == [pc |-> "idle", req |-> NoRequest, code |-> 0, wrote |-> FALSE]

\* no bank-resolution request yet
IdleLookup ==
  [ pc |-> "idle", accountNumber |-> Undefined, bankName |-> Undefined,
    code |-> 0, called |-> FALSE, bank_code |-> Undefined ]

VARIABLES
  refs,      \* collection "Reference": key -> document
  users,     \* collection "users": the ids that have a document
  history,   \* TicketHistory/{uid}/tickets/{ticketId}
  attendees, \* events/{creator}/userEvents/{event}/attendees/{ticketId}
  admin,     \* admin/events/{event}/{ticketId}
  referral,  \* events/{creator}/userEvents/{event}/referrals/{code}
  side,      \* outbound calls made: inventory, analytics, email
  call,      \* the issuance requests: slot -> request state
  hook,      \* the webhook deliveries: slot -> request state
  faults,    \* store operations that threw so far
  minted,    \* per reference: transactions that committed
  verify     \* the bank-resolution requests: slot -> request state

vars == <<refs, users, history, attendees, admin, referral, side, call, hook,
          faults, minted, verify>>

store == <<refs, users, history, attendees, admin, referral>>


\* ------------------------------------------------------ identifier generator

Min(a, b) == IF a < b THEN a ELSE b

\* String.prototype.substring(a, b) for 0 <= a <= b: indices clamp to the length
Substring(s, a, b) == SubSeq(s, Min(a, Len(s)) + 1, Min(b, Len(s)))

\* s[i] inside a template literal: a missing character prints as "undefined"
CharAt(s, i) == IF i < Len(s) THEN SubSeq(s, i + 1, i + 1) ELSE "undefined"

\* the format of the doc comment, "SPTX-TX-{numbers}{letters}"
generateTicketIdAppended(d) == "SPTX-TX-" \o d.numbers \o d.letters

\* generateTicketId, as a function of its four random draws: d.numbers is
\* Math.floor(10000000 + Math.random() * 90000000).toString(), d.letters is
\* Math.random().toString(36).substring(2, 4).toUpperCase(), d.r1 and d.r2 are
\* Math.floor(Math.random() * 8) and Math.floor(Math.random() * 7)
generateTicketId(d) ==
  LET pos1 == d.r1
      pos2 == d.r2 + pos1 + 1
      part1 == Substring(d.numbers, 0, pos1)
      part2 == Substring(d.numbers, pos1, pos2)
      part3 == Substring(d.numbers, pos2, Len(d.numbers))
  IN "SPTX-TX-" \o part1 \o CharAt(d.letters, 0) \o part2
       \o CharAt(d.letters, 1) \o part3

\* the outcomes of the random draws followed in the workflow specification
IssueDraws ==
  { [numbers |-> "12345678", letters |-> "AB", r1 |-> 2, r2 |-> 1],
    [numbers |-> "87654321", letters |-> "QZ", r1 |-> 0, r2 |-> 6] }

\* the outcomes the random draws can have: an 8-digit number string; the two
\* characters after "0." of a base-36 fraction, upper-cased, which are digits
\* or letters and are fewer than two when the fraction is short; a first split
\* point 0..7 and an offset 0..6
DrawnNumbers == {"10000000", "12345678", "99999999"}
DrawnLetters == {"AB", "ZZ", "Q7", "42", "K", ""}
AllDraws ==
  [numbers : DrawnNumbers, letters : DrawnLetters, r1 : 0..7, r2 : 0..6]

\* ----------------------------------------------------------- request inputs

Str(s) == [t |-> "string", v |-> s]
Num(n) == [t |-> "number", v |-> n]
Undef == [t |-> "undefined"]

\* !value
Falsy(x) ==
  \/ x.t = "undefined"
  \/ x.t = "string" /\ x.v = ""
  \/ x.t = "number" /\ x.v = 0

\* request.body of an issuance request: absent, or an object with a reference
NoBody == [present |-> FALSE]
Body(x) == [present |-> TRUE, reference |-> x]

\* the well-formed request of each route
GoodBody(kind) == Body(Str(IF kind = "paid" THEN PaidRef ELSE FreeRef))

\* every shape of request body a client can send
AllBodies ==
  {NoBody} \cup
  {Body(x) : x \in {Undef, Str(""), Num(0), Num(12345), Str("REF-1"),
                    Str(PaidRef), Str(FreeRef), Str(UnknownRef)}}

RoutePrefix(kind) == IF kind = "paid" THEN PaidPrefix ELSE FreePrefix

\* the input validation of both routes: what the handler does with a body
Validate(kind, b) ==
  IF ~b.present THEN "throw"                  \* destructuring undefined
  ELSE IF Falsy(b.reference) THEN "missing"
  ELSE IF b.reference.t # "string" THEN "throw" \* startsWith is not a function
  ELSE IF ~StartsWith(b.reference.v, RoutePrefix(kind)) THEN "format"
  ELSE "ok"

\* ------------------------------------------------------------------- Init

InitialPaidStatus == {"pending", "successful", "settled"}

Init ==
  /\ \E s \in InitialPaidStatus :
       refs = [k \in RefKeys |->
                 IF k = PaidRef THEN NewReference(s, "paystack", 5000, 100)
                 ELSE NewReference("settled", "free ticket", 700, 50)]
  /\ users \in {{TheUser}, {}}
  /\ history = << >>
  /\ attendees = << >>
  /\ admin = << >>
  /\ referral = [exists |-> TRUE, totalTickets |-> 0, usages |-> {}]
  /\ side = {}
  /\ call = [p \in Calls |-> IdleCall]
  /\ hook = [h \in Hooks \cup Deliveries |-> IdleHook]
  /\ faults = 0
  /\ minted = [k \in RefKeys |-> 0]
  /\ verify = [v \in Lookups |-> IdleLookup]

\* --------------------------------------------------------- issuance: common

\* new Date() of request p, as written into the ticket records: each request
\* has its own instant
Now(p) == "t" \o ToString(p)

\* an ISO timestamp written into a Reference document: some instant
Instant == "<instant>"

\* reply.code(c).send({error: e, ...}) and return
Reply(c, code, error) == [c EXCEPT !.pc = "done", !.code = code, !.error = error]

\* the outer catch of both routes
Caught(c) == Reply(c, 500, "Internal Server Error")

\* a write to the Reference document r aborts the transactions that have read it
Touch(c, r) ==
  IF c.pc = "commit" /\ c.reference = r THEN [c EXCEPT !.stale = TRUE] ELSE c

\* request p becomes c; the Reference document r was written (or "" for none)
Step(p, c, r) == call' = [[q \in Calls |-> Touch(call[q], r)] EXCEPT ![p] = c]

Quiet(p, c) == Step(p, c, "")

Done(q) == call[q].pc = "done"

\* slots are taken in order: slot i serves the i-th request to arrive
InOrder(slots, i) == IF i = 1 THEN TRUE ELSE slots[i - 1].pc # "idle"

\* POST /ticket/iwss and POST /ticket/free: the handler up to its first await
Start(p, kind, b) ==
  /\ call[p].pc = "idle"
  /\ InOrder(call, p)
  /\ LET v == Validate(kind, b)
         c == [call[p] EXCEPT !.kind = kind, !.input = b,
                              !.prior = {q \in Calls : Done(q)}]
     IN Quiet(p,
          CASE v = "throw"   -> Caught(c)
            [] v = "missing" -> Reply(c, 400, "Bad Request")
            [] v = "format"  -> Reply(c, 400, "Bad Request")
            [] OTHER -> [c EXCEPT !.reference = b.reference.v,
                                  !.pc = IF kind = "paid" THEN "poll" ELSE "check"])
  /\ UNCHANGED <<store, side, hook, faults, minted, verify>>


\* ------------------------------------------------- issuance: status check

Exists(r) == r \in DOMAIN refs

\* a loop that treats a failed payment like a pending one
PaidVerdictRetriesFailed(status) ==
  CASE status = "successful" -> "proceed"
    [] status = "failed"     -> "pending"
    [] status = "pending"    -> "pending"
    [] OTHER                 -> "again"

\* a loop that breaks on every status it has no branch for
PaidVerdictLax(status) ==
  CASE status = "failed"  -> "failed"
    [] status = "pending" -> "pending"
    [] OTHER              -> "proceed"

\* a loop that keeps waiting when the payment has succeeded
PaidVerdictNeverProceeds(status) ==
  CASE status = "successful" -> "pending"
    [] status = "failed"     -> "failed"
    [] status = "pending"    -> "pending"
    [] OTHER                 -> "again"

\* what the paid route's loop does with one status it has read
\* (the if / else if chain of step 1; no branch matches any other value)
PaidVerdict(status) ==
  CASE status = "successful" -> "proceed"
    [] status = "failed"     -> "failed"
    [] status = "pending"    -> "pending"
    [] OTHER                 -> "again"

\* the retry test off by one
MayRetryOnceMore(attempts) == attempts <= maxAttempts

\* if (attempts < maxAttempts), after attempts++ in the pending branch
MayRetry(attempts) == attempts < maxAttempts

\* the free route's single check of step 1
FreeAccepts(data) == ~(data.vendor # "free ticket" \/ data.status # "settled")

\* a loop that keeps the paymentData of its first read
PollReadKeepsFirst(p) ==
  /\ call[p].pc = "poll"
  /\ call[p].reads < MaxReads
  /\ LET r == call[p].reference
         c == [call[p] EXCEPT !.reads = @ + 1]
     IN IF ~Exists(r) THEN Quiet(p, Reply(c, 404, "Not Found"))
        ELSE
          LET d == IF call[p].reads = 0
                   THEN [c EXCEPT !.paymentData = Snapshot(refs[r])] ELSE c
              v == PaidVerdict(refs[r].status)
          IN CASE v = "proceed" -> Quiet(p, [d EXCEPT !.pc = "tx"])
               [] v = "failed"  -> Quiet(p, Reply(d, 400, "Payment Failed"))
               [] v = "pending" ->
                    IF MayRetry(d.attempts + 1)
                    THEN Quiet(p, [d EXCEPT !.attempts = @ + 1, !.pc = "sleep"])
                    ELSE Quiet(p, Reply([d EXCEPT !.attempts = @ + 1],
                                        400, "Payment Pending"))
               [] OTHER -> Quiet(p, d)
  /\ UNCHANGED <<store, side, hook, faults, minted, verify>>

\* one pass of `while (attempts < maxAttempts)`: the read and the branch on it
PollRead(p) ==
  /\ call[p].pc = "poll"
  /\ call[p].reads < MaxReads
  /\ LET r == call[p].reference
         c == [call[p] EXCEPT !.reads = @ + 1]
     IN IF ~Exists(r) THEN Quiet(p, Reply(c, 404, "Not Found"))
        ELSE
          LET d == [c EXCEPT !.paymentData = Snapshot(refs[r])]
              v == PaidVerdict(refs[r].status)
          IN CASE v = "proceed" -> Quiet(p, [d EXCEPT !.pc = "tx"])
               [] v = "failed"  -> Quiet(p, Reply(d, 400, "Payment Failed"))
               [] v = "pending" ->
                    IF MayRetry(d.attempts + 1)
                    THEN Quiet(p, [d EXCEPT !.attempts = @ + 1, !.pc = "sleep"])
                    ELSE Quiet(p, Reply([d EXCEPT !.attempts = @ + 1],
                                        400, "Payment Pending"))
               [] OTHER -> Quiet(p, d)
  /\ UNCHANGED <<store, side, hook, faults, minted, verify>>

\* await new Promise((resolve) => setTimeout(resolve, 2000))
Pause(p) ==
  /\ call[p].pc = "sleep"
  /\ Quiet(p, [call[p] EXCEPT !.pc = "poll", !.sleeps = @ + 1])
  /\ UNCHANGED <<store, side, hook, faults, minted, verify>>

\* step 1 of the free route: one read, no retry
FreeRead(p) ==
  /\ call[p].pc = "check"
  /\ LET r == call[p].reference
         c == [call[p] EXCEPT !.reads = @ + 1]
     IN IF ~Exists(r) THEN Quiet(p, Reply(c, 404, "Not Found"))
        ELSE
          LET d == [c EXCEPT !.paymentData = Snapshot(refs[r])]
          IN IF FreeAccepts(refs[r])
             THEN Quiet(p, [d EXCEPT !.pc = "tx"])
             ELSE Quiet(p, Reply(d, 400, "Invalid Reference"))
  /\ UNCHANGED <<store, side, hook, faults, minted, verify>>

\* ------------------------------------------- issuance: identifier transaction

\* a transaction body that never finds an identifier and always generates
HasTicketIdNever(refData) == FALSE

\* if (refData.ticketId): the transaction reuses the identifier it read
HasTicketId(refData) == Truthy(refData.ticketId)

\* the body of runTransaction: transaction.get, then reuse or generate; the
\* update is buffered until the commit.  d is the outcome of the random draws.
TxBody(p, d) ==
  /\ call[p].pc = "tx"
  /\ LET r == call[p].reference
         \* attempts is dead once the loop is left; the read counts go with it
         c == [call[p] EXCEPT !.pc = "commit", !.stale = FALSE,
                              !.attempts = 0, !.reads = 0, !.sleeps = 0]
     IN IF ~Exists(r) THEN Quiet(p, Caught(call[p]))
        ELSE IF HasTicketId(refs[r])
        THEN Quiet(p, [c EXCEPT !.ticketId = refs[r].ticketId, !.pending = FALSE])
        ELSE Quiet(p, [c EXCEPT !.ticketId = generateTicketId(d), !.pending = TRUE])
  /\ UNCHANGED <<store, side, hook, faults, minted, verify>>

\* a store that commits whatever the transaction read: a plain get, then update
ConflictUnchecked(c) == FALSE

\* the store's conflict check at commit: a document read by the transaction
\* was written by someone else since
Conflict(c) == c.pending /\ c.stale

\* a commit whose rejection is swallowed: the request goes on with the
\* identifier it generated
TxCommitSwallows(p) ==
  /\ call[p].pc = "commit"
  /\ LET r == call[p].reference
         c == call[p]
     IN IF Conflict(c)
        THEN /\ Quiet(p, [c EXCEPT !.pc = "user", !.pending = FALSE])
             /\ UNCHANGED <<refs, minted>>
        ELSE IF c.pending
        THEN /\ refs' = [refs EXCEPT ![r].ticketId = c.ticketId,
                                     ![r].ticketIdGeneratedAt = Instant,
                                     ![r].updatedAt = Instant]
             /\ minted' = [minted EXCEPT ![r] = @ + 1]
             /\ Step(p, [c EXCEPT !.pc = "user", !.pending = FALSE,
                                  !.effects = @ + 1], r)
        ELSE /\ Quiet(p, [c EXCEPT !.pc = "user", !.stale = FALSE])
             /\ UNCHANGED <<refs, minted>>
  /\ UNCHANGED <<users, history, attendees, admin, referral, side, hook, faults, verify>>

\* the commit of runTransaction: a conflicting transaction is run again (and
\* fails once the store gives up), any other applies its buffered update
TxCommit(p) ==
  /\ call[p].pc = "commit"
  /\ LET r == call[p].reference
         c == call[p]
     IN IF Conflict(c)
        THEN /\ IF c.tries < MaxTxRetries
                THEN Quiet(p, [c EXCEPT !.pc = "tx", !.tries = @ + 1])
                ELSE Quiet(p, Caught(c))
             /\ UNCHANGED <<refs, minted>>
        ELSE IF c.pending
        THEN /\ refs' = [refs EXCEPT ![r].ticketId = c.ticketId,
                                     ![r].ticketIdGeneratedAt = Instant,
                                     ![r].updatedAt = Instant]
             /\ minted' = [minted EXCEPT ![r] = @ + 1]
             /\ Step(p, [c EXCEPT !.pc = "user", !.pending = FALSE,
                                  !.effects = @ + 1], r)
        ELSE /\ Quiet(p, [c EXCEPT !.pc = "user", !.stale = FALSE])
             /\ UNCHANGED <<refs, minted>>
  /\ UNCHANGED <<users, history, attendees, admin, referral, side, hook, faults, verify>>

\* a lookup that goes on whether or not the user document exists
UserGetUnchecked(p) ==
  /\ call[p].pc = "user"
  /\ Quiet(p, [call[p] EXCEPT !.tries = 0, !.pc = "histGet"])
  /\ UNCHANGED <<store, side, hook, faults, minted, verify>>

\* step 3: the user lookup (the transaction's retry count is gone by now)
UserGet(p) ==
  /\ call[p].pc = "user"
  /\ LET c == [call[p] EXCEPT !.tries = 0]
     IN IF c.paymentData.userId \in users
        THEN Quiet(p, [c EXCEPT !.pc = "histGet"])
        ELSE Quiet(p, Reply(c, 404, "User Not Found"))
  /\ UNCHANGED <<store, side, hook, faults, minted, verify>>


\* ---------------------------------------------------- issuance: ticket records

\* process.env of the issuance routes: the URLs that are configured
Env == {"ATOMIC_FUNCTION_URL", "ATOMIC_API_URL", "ANALYTICS_FUNCTION_URL", "BACKEND_URL"}

\* a ticket record that copies the stored prices on both routes
TicketDataStoredPrices(p, c) ==
  LET pd == c.paymentData
  IN [ uid |-> pd.userId,
       fullName |-> OrElse(UserDoc.fullName, ""),
       email |-> OrElse(UserDoc.email, ""),
       ticketType |-> pd.ticketType,
       ticketId |-> c.ticketId,
       ticketReference |-> c.reference,
       paymentMethod |-> IF c.kind = "paid" THEN "IWSS" ELSE "Free Ticket",
       originalPrice |-> pd.ticketPrice,
       ticketPrice |-> pd.ticketPrice,
       transactionFee |-> pd.transactionFee,
       totalAmount |-> pd.totalAmount,
       discountApplied |-> Truthy(pd.discountCode),
       referralCode |-> OrElse(pd.referralCode, Null),
       createdAt |-> Now(p) ]

\* step 4: ticketData, from the snapshot read in step 1 and the user document
TicketData(p, c) ==
  LET pd == c.paymentData
      paid == c.kind = "paid"
  IN [ uid |-> pd.userId,
       fullName |-> OrElse(UserDoc.fullName, ""),
       email |-> OrElse(UserDoc.email, ""),
       ticketType |-> pd.ticketType,
       ticketId |-> c.ticketId,
       ticketReference |-> c.reference,
       paymentMethod |-> IF paid THEN "IWSS" ELSE "Free Ticket",
       originalPrice |-> IF paid THEN pd.ticketPrice ELSE 0,
       ticketPrice |-> IF paid THEN pd.ticketPrice ELSE 0,
       transactionFee |-> IF paid THEN pd.transactionFee ELSE 0,
       totalAmount |-> IF paid THEN pd.totalAmount ELSE 0,
       discountApplied |-> IF paid THEN Truthy(pd.discountCode) ELSE FALSE,
       referralCode |-> OrElse(pd.referralCode, Null),
       createdAt |-> Now(p) ]

\* the document of steps 5 and 6, and the admin document of step 9
HistoryData(p, c) ==
  [ ticket |-> TicketData(p, c), eventId |-> c.paymentData.eventId,
    eventName |-> c.paymentData.eventName,
    eventCreatorId |-> c.paymentData.eventCreatorId ]

AdminData(p, c) ==
  [ reference |-> c.reference, uid |-> c.paymentData.userId,
    ticketPrice |-> IF c.kind = "paid" THEN c.paymentData.ticketPrice ELSE 0,
    ticketType |-> c.paymentData.ticketType, date |-> Now(p),
    eventName |-> c.paymentData.eventName,
    eventCreatorId |-> c.paymentData.eventCreatorId ]

HistoryKey(c) == <<c.paymentData.userId, c.ticketId>>
AttendeeKey(c) == <<c.paymentData.eventCreatorId, c.paymentData.eventId, c.ticketId>>
AdminKey(c) == <<c.paymentData.eventId, c.ticketId>>

\* the three writes without their guard
AbsentUnguarded(coll, key) == TRUE

\* if (!doc.exists): the guard of each of the three writes
Absent(coll, key) == key \notin DOMAIN coll

\* a step 5 that goes on without looking at or writing the history record
HistGetSkips(p) ==
  /\ call[p].pc = "histGet"
  /\ Quiet(p, [call[p] EXCEPT !.pc = "attGet"])
  /\ UNCHANGED <<store, side, hook, faults, minted, verify>>

\* step 5: ticketHistoryRef.get() and the branch on it
HistGet(p) ==
  /\ call[p].pc = "histGet"
  /\ Quiet(p, [call[p] EXCEPT !.pc =
         IF Absent(history, HistoryKey(call[p])) THEN "histSet" ELSE "attGet"])
  /\ UNCHANGED <<store, side, hook, faults, minted, verify>>

\* step 5: ticketHistoryRef.set(ticketHistoryData)
HistSet(p) ==
  /\ call[p].pc = "histSet"
  /\ history' = SetDoc(history, HistoryKey(call[p]), HistoryData(p, call[p]))
  /\ Quiet(p, [call[p] EXCEPT !.pc = "attGet", !.effects = @ + 1])
  /\ UNCHANGED <<refs, users, attendees, admin, referral, side, hook, faults, minted, verify>>

\* step 6: attendeeDocRef.get() and the branch on it
AttGet(p) ==
  /\ call[p].pc = "attGet"
  /\ Quiet(p, [call[p] EXCEPT !.pc =
         IF Absent(attendees, AttendeeKey(call[p])) THEN "attSet" ELSE "atomic"])
  /\ UNCHANGED <<store, side, hook, faults, minted, verify>>

\* step 6: attendeeDocRef.set(ticketData)
AttSet(p) ==
  /\ call[p].pc = "attSet"
  /\ attendees' = SetDoc(attendees, AttendeeKey(call[p]), TicketData(p, call[p]))
  /\ Quiet(p, [call[p] EXCEPT !.pc = "atomic", !.effects = @ + 1])
  /\ UNCHANGED <<refs, users, history, admin, referral, side, hook, faults, minted, verify>>

\* what a best-effort fetch can do: answer OK, answer not OK, or throw
Outcomes == {"ok", "notok", "throw"}

\* the request a fetch sends, recorded when it reached the receiver
Sent(to, p, c, o) ==
  IF o = "throw" THEN {}
  ELSE {[ to |-> to, ticketId |-> c.ticketId, by |-> p,
          ticketPrice |-> IF c.kind = "paid" THEN c.paymentData.ticketPrice ELSE 0 ]}

\* c after a side call with outcome o (sent: whether a request went out)
After(c, o, next) ==
  [c EXCEPT !.pc = next,
            !.effects = IF o = "throw" THEN @ ELSE @ + 1,
            !.sideFailed = @ \/ o # "ok"]

\* step 7: the inventory ("atomic operations") call, inside its own try/catch
Atomic(p, o) ==
  /\ call[p].pc = "atomic"
  /\ LET c == call[p]
         url == IF c.kind = "paid" THEN "ATOMIC_FUNCTION_URL" ELSE "ATOMIC_API_URL"
         pd == c.paymentData
         next == IF Truthy(pd.referralCode) \/ Truthy(pd.referralName)
                 THEN "refGet" ELSE "admGet"
     IN IF url \in Env
        THEN /\ side' = side \cup Sent("inventory", p, c, o)
             /\ Quiet(p, After(c, o, next))
        ELSE /\ side' = side
             /\ Quiet(p, [c EXCEPT !.pc = next])
  /\ UNCHANGED <<store, hook, faults, minted, verify>>

\* step 8: referralDocRef.get(), inside try/catch: a throw skips the update
ReferralGet(p, o) ==
  /\ call[p].pc = "refGet"
  /\ LET c == call[p]
     IN IF o = "throw" THEN Quiet(p, [c EXCEPT !.pc = "admGet", !.sideFailed = TRUE])
        ELSE Quiet(p, [c EXCEPT !.pc = IF referral.exists THEN "refUpd" ELSE "admGet"])
  /\ UNCHANGED <<store, side, hook, faults, minted, verify>>

\* step 8: referralDocRef.update({usages: arrayUnion(..), totalTickets: increment(1)})
ReferralUpdate(p, o) ==
  /\ call[p].pc = "refUpd"
  /\ LET c == call[p]
         usage == [ name |-> OrElse(UserDoc.fullName, "Unknown"),
                    ticketType |-> c.paymentData.ticketType,
                    purchaseDate |-> Now(p) ]
     IN IF o = "throw"
        THEN /\ referral' = referral
             /\ Quiet(p, [c EXCEPT !.pc = "admGet", !.sideFailed = TRUE])
        ELSE /\ referral' = [referral EXCEPT !.usages = @ \cup {usage},
                                             !.totalTickets = @ + 1]
             /\ Quiet(p, [c EXCEPT !.pc = "admGet", !.effects = @ + 1])
  /\ UNCHANGED <<refs, users, history, attendees, admin, side, hook, faults, minted, verify>>

\* a step 9 that goes on without looking at or writing the admin record
AdminGetSkips(p) ==
  /\ call[p].pc = "admGet"
  /\ Quiet(p, [call[p] EXCEPT !.pc = "flag"])
  /\ UNCHANGED <<store, side, hook, faults, minted, verify>>

\* step 9: adminTicketRef.get() and the branch on it
AdminGet(p) ==
  /\ call[p].pc = "admGet"
  /\ Quiet(p, [call[p] EXCEPT !.pc =
         IF Absent(admin, AdminKey(call[p])) THEN "admSet" ELSE "flag"])
  /\ UNCHANGED <<store, side, hook, faults, minted, verify>>

\* step 9: adminTicketRef.set({...})
AdminSet(p) ==
  /\ call[p].pc = "admSet"
  /\ admin' = SetDoc(admin, AdminKey(call[p]), AdminData(p, call[p]))
  /\ Quiet(p, [call[p] EXCEPT !.pc = "flag", !.effects = @ + 1])
  /\ UNCHANGED <<refs, users, history, attendees, referral, side, hook, faults, minted, verify>>

\* step 10: referenceDocRef.update({ticketGenerated: true, ...}); update
\* rejects when the document is not there
MarkGenerated(p) ==
  /\ call[p].pc = "flag"
  /\ LET r == call[p].reference
     IN IF Exists(r)
        THEN /\ refs' = [refs EXCEPT ![r].ticketGenerated = TRUE,
                                     ![r].ticketGeneratedAt = Instant,
                                     ![r].updatedAt = Instant]
             /\ Step(p, [call[p] EXCEPT !.pc = "analytics", !.effects = @ + 1], r)
        ELSE /\ refs' = refs
             /\ Quiet(p, Caught(call[p]))
  /\ UNCHANGED <<users, history, attendees, admin, referral, side, hook, faults, minted, verify>>

\* step 11: the analytics call, inside its own try/catch
Analytics(p, o) ==
  /\ call[p].pc = "analytics"
  /\ LET c == call[p]
     IN IF "ANALYTICS_FUNCTION_URL" \in Env
        THEN /\ side' = side \cup Sent("analytics", p, c, o)
             /\ Quiet(p, After(c, o, "email"))
        ELSE /\ side' = side
             /\ Quiet(p, [c EXCEPT !.pc = "email"])
  /\ UNCHANGED <<store, hook, faults, minted, verify>>

\* step 13: the body of the 200 response
SuccessBody(c) ==
  [ success |-> TRUE, ticketId |-> c.ticketId, ticketReference |-> c.reference,
    ticketPrice |-> IF c.kind = "paid" THEN c.paymentData.ticketPrice ELSE 0,
    totalAmount |-> IF c.kind = "paid" THEN c.paymentData.totalAmount ELSE 0,
    referralUsed |-> Truthy(c.paymentData.referralCode) ]

\* steps 12 and 13: the confirmation email, inside its own try/catch, then the
\* 200 response
EmailAndReply(p, o) ==
  /\ call[p].pc = "email"
  /\ LET c == After(call[p], o, "done")
     IN /\ side' = side \cup Sent("email", p, call[p], o)
        /\ Quiet(p, [c EXCEPT !.code = 200, !.body = SuccessBody(c)])
  /\ UNCHANGED <<store, hook, faults, minted, verify>>

\* the awaits on the store that sit directly under the outer try: when one
\* throws, the outer catch answers 500
StorePcs == {"poll", "check", "tx", "commit", "user", "histGet", "histSet", "attGet",
             "attSet", "admGet", "admSet", "flag"}

StoreThrows(p) ==
  /\ call[p].pc \in StorePcs
  /\ faults < MaxFaults
  /\ faults' = faults + 1
  /\ Quiet(p, Caught(call[p]))
  /\ UNCHANGED <<store, side, hook, minted, verify>>


\* ------------------------------------------------------------------ webhook

\* one entry of data.metadata.custom_fields
Field(name, value) == [variable_name |-> name, value |-> value]

\* data of a webhook body; fields is the custom_fields list, hasFields is
\* whether data.metadata.custom_fields is there at all
NoHookData == [present |-> FALSE]
HookData(reference, hasFields, fields, amount) ==
  [ present |-> TRUE, reference |-> reference, hasFields |-> hasFields,
    custom_fields |-> fields, amount |-> amount ]

HookBody(event, data) == [event |-> event, data |-> data]

\* request.headers["x-paystack-signature"] when the header is absent
NoSignature == [alg |-> "none"]

\* the request: the x-paystack-signature header and the parsed JSON body
HookRequest(sig, body) == [sig |-> sig, body |-> body]

\* data?.reference
HookReference(data) == IF data.present THEN data.reference ELSE Undefined

\* data?.metadata?.custom_fields?.find(f => f.variable_name === "type")?.value
TransactionType(data) ==
  IF ~data.present \/ ~data.hasFields THEN Undefined
  ELSE LET cf == data.custom_fields
           hits == {i \in 1..Len(cf) : cf[i].variable_name = "type"}
       IN IF hits = {} THEN Undefined
          ELSE cf[CHOOSE i \in hits : \A j \in hits : i <= j].value

\* a check that only looks whether the header is there
SignatureMissing(req) == req.sig = NoSignature

\* hash !== paystackSignature
SignatureMismatch(req) == Hmac(PAYSTACK_SECRET_KEY, req.body) # req.sig

HandledEvents == {"charge.success", "charge.failed"}

\* the handler with the transaction-type gate placed before the reference check
HookVerdictTypeFirst(req) ==
  IF PAYSTACK_SECRET_KEY = Undefined THEN "noSecret"
  ELSE IF SignatureMismatch(req) THEN "badSignature"
  ELSE IF req.body.event \notin HandledEvents THEN "unhandled"
  ELSE IF TransactionType(req.body.data) # "ticket_purchase" THEN "otherType"
  ELSE IF ~Truthy(HookReference(req.body.data)) THEN "noReference"
  ELSE "apply"

\* the handler without the transaction-type gate
HookVerdictNoGate(req) ==
  IF PAYSTACK_SECRET_KEY = Undefined THEN "noSecret"
  ELSE IF SignatureMismatch(req) THEN "badSignature"
  ELSE IF req.body.event \notin HandledEvents THEN "unhandled"
  ELSE IF ~Truthy(HookReference(req.body.data)) THEN "noReference"
  ELSE "apply"

\* what POST /webhook does with a request before it touches the store
HookVerdict(req) ==
  IF PAYSTACK_SECRET_KEY = Undefined THEN "noSecret"
  ELSE IF SignatureMismatch(req) THEN "badSignature"
  ELSE IF req.body.event \notin HandledEvents THEN "unhandled"
  ELSE IF ~Truthy(HookReference(req.body.data)) THEN "noReference"
  ELSE IF TransactionType(req.body.data) # "ticket_purchase" THEN "otherType"
  ELSE "apply"

\* POST /webhook up to the update: the checks on the request, then
\* referenceRef.get() and the 404 of an unknown reference
HookReceive(h, req) ==
  /\ hook[h].pc = "idle"
  /\ InOrder(hook, h)
  /\ LET v == HookVerdict(req)
         w == [hook[h] EXCEPT !.req = req]
     IN hook' = [hook EXCEPT ![h] =
          CASE v = "noSecret"     -> [w EXCEPT !.pc = "done", !.code = 500]
            [] v = "badSignature" -> [w EXCEPT !.pc = "done", !.code = 401]
            [] v = "unhandled"    -> [w EXCEPT !.pc = "done", !.code = 200]
            [] v = "noReference"  -> [w EXCEPT !.pc = "done", !.code = 400]
            [] v = "otherType"    -> [w EXCEPT !.pc = "done", !.code = 200]
            [] OTHER ->
                 IF Exists(req.body.data.reference)
                 THEN [w EXCEPT !.pc = "update"]
                 ELSE [w EXCEPT !.pc = "done", !.code = 404]]
  /\ UNCHANGED <<store, side, call, faults, minted, verify>>

\* an update that records every charge event as a success
HookPatchAlwaysSuccessful(doc, body) ==
  [doc EXCEPT !.status = "successful",
              !.updatedAt = Instant,
              !.paystackEvent = body.event,
              !.transactionType = "ticket_purchase",
              !.amount = OrElse(body.data.amount, Null)]

\* a write with set() in place of update(): the fields it does not name are dropped
HookPatchReplaces(doc, body) ==
  [doc EXCEPT !.status = IF body.event = "charge.success" THEN "successful"
                         ELSE "failed",
              !.updatedAt = Instant,
              !.paystackEvent = body.event,
              !.transactionType = "ticket_purchase",
              !.amount = OrElse(body.data.amount, Null),
              !.ticketId = Undefined,
              !.ticketIdGeneratedAt = Undefined,
              !.ticketGenerated = FALSE,
              !.ticketGeneratedAt = Undefined]

\* the fields referenceRef.update writes
HookPatch(doc, body) ==
  [doc EXCEPT !.status = IF body.event = "charge.success" THEN "successful"
                         ELSE "failed",
              !.updatedAt = Instant,
              !.paystackEvent = body.event,
              !.transactionType = "ticket_purchase",
              !.amount = OrElse(body.data.amount, Null)]

\* referenceRef.update({status: paymentStatus, ...}) and the 200
HookUpdate(h) ==
  /\ hook[h].pc = "update"
  /\ LET body == hook[h].req.body
         r == body.data.reference
     IN IF Exists(r)
        THEN /\ refs' = [refs EXCEPT ![r] = HookPatch(@, body)]
             /\ call' = [q \in Calls |-> Touch(call[q], r)] @@ << >>
             /\ hook' = [hook EXCEPT ![h] = [@ EXCEPT !.pc = "done", !.code = 200,
                                                      !.wrote = TRUE]]
        ELSE /\ UNCHANGED <<refs, call>>
             /\ hook' = [hook EXCEPT ![h] = [@ EXCEPT !.pc = "done", !.code = 500]]
  /\ UNCHANGED <<users, history, attendees, admin, referral, side, faults, minted, verify>>

\* the update throws: the inner catch answers 500
HookThrows(h) ==
  /\ hook[h].pc = "update"
  /\ faults < MaxFaults
  /\ faults' = faults + 1
  /\ hook' = [hook EXCEPT ![h] = [@ EXCEPT !.pc = "done", !.code = 500]]
  /\ UNCHANGED <<store, side, call, minted, verify>>

\* a correctly signed request with this body
Signed(body) == HookRequest(Hmac(PAYSTACK_SECRET_KEY, body), body)

TicketPurchase == <<Field("type", "ticket_purchase")>>

\* the deliveries followed in the workflow specification: the gateway's
\* charge events for the two references
GatewayEvents ==
  { Signed(HookBody(e, HookData(r, TRUE, TicketPurchase, "510000"))) :
      e \in HandledEvents, r \in RefKeys }

\* every request a client or the gateway can send to POST /webhook
HookFieldLists ==
  { <<>>, TicketPurchase, <<Field("type", "donation")>>,
    <<Field("plan", "gold"), Field("type", "ticket_purchase")>>,
    <<Field("type", "donation"), Field("type", "ticket_purchase")>> }

HookDatas ==
  {NoHookData} \cup
  { HookData(r, TRUE, f, "510000") :
      r \in {Undefined, "", PaidRef, UnknownRef}, f \in HookFieldLists } \cup
  { HookData(r, FALSE, <<>>, Undefined) : r \in {Undefined, PaidRef, UnknownRef} }

HookBodies ==
  { HookBody(e, d) :
      e \in {"charge.success", "charge.failed", "transfer.success"}, d \in HookDatas }

OtherBody == HookBody("charge.success", HookData(FreeRef, TRUE, TicketPurchase, "1"))

AllHookRequests ==
  { HookRequest(sig, b) :
      sig \in {NoSignature}, b \in HookBodies } \cup
  { HookRequest(Hmac(k, m), b) :
      k \in {PAYSTACK_SECRET_KEY}, m \in {OtherBody}, b \in HookBodies } \cup
  { HookRequest(Hmac(k, b), b) :
      k \in {PAYSTACK_SECRET_KEY, "sk_test"}, b \in HookBodies }

\* ---------------------------------------------------------- bank resolution

\* const bankCodes = {...}: the own properties of the object literal
bankCodes ==
  ("Access Bank" :> "044")
  @@ ("Citibank" :> "023")
  @@ ("Ecobank Nigeria" :> "050")
  @@ ("Fidelity Bank" :> "070")
  @@ ("First Bank of Nigeria" :> "011")
  @@ ("First City Monument Bank" :> "214")
  @@ ("FCMB" :> "214")
  @@ ("Globus Bank" :> "00103")
  @@ ("Guaranty Trust Bank" :> "058")
  @@ ("GTBank" :> "058")
  @@ ("GT Bank" :> "058")
  @@ ("Heritage Bank" :> "030")
  @@ ("Jaiz Bank" :> "301")
  @@ ("Keystone Bank" :> "082")
  @@ ("Lotus Bank" :> "303")
  @@ ("Parallex Bank" :> "526")
  @@ ("Polaris Bank" :> "076")
  @@ ("Providus Bank" :> "101")
  @@ ("Stanbic IBTC Bank" :> "221")
  @@ ("Stanbic IBTC" :> "221")
  @@ ("Standard Chartered Bank" :> "068")
  @@ ("Sterling Bank" :> "232")
  @@ ("SunTrust Bank" :> "100")
  @@ ("Taj Bank" :> "302")
  @@ ("Titan Trust Bank" :> "102")
  @@ ("Union Bank of Nigeria" :> "032")
  @@ ("Union Bank" :> "032")
  @@ ("United Bank For Africa" :> "033")
  @@ ("UBA" :> "033")
  @@ ("Unity Bank" :> "215")
  @@ ("Wema Bank" :> "035")
  @@ ("Zenith Bank" :> "057")
  @@ ("Opay" :> "999992")
  @@ ("OPay" :> "999992")
  @@ ("Palmpay" :> "999991")
  @@ ("PalmPay" :> "999991")
  @@ ("Moniepoint MFB" :> "50515")
  @@ ("Moniepoint" :> "50515")
  @@ ("Kuda Bank" :> "50211")
  @@ ("Kuda" :> "50211")
  @@ ("VFD Microfinance Bank" :> "566")
  @@ ("VFD MFB" :> "566")
  @@ ("Rubies MFB" :> "125")
  @@ ("Sparkle Microfinance Bank" :> "51310")
  @@ ("Infinity MFB" :> "50457")
  @@ ("Aso Savings and Loans" :> "401")
  @@ ("Covenant MFB" :> "551")
  @@ ("Ekondo Microfinance Bank" :> "562")
  @@ ("Eyowo" :> "50126")
  @@ ("Hasal Microfinance Bank" :> "50383")
  @@ ("NPF MicroFinance Bank" :> "552")
  @@ ("Paga" :> "100002")
  @@ ("FSDH Merchant Bank Limited" :> "501")
  @@ ("Rand Merchant Bank" :> "502")
  @@ ("Nova Merchant Bank" :> "060")
  @@ ("9mobile 9Payment Service Bank" :> "120001")
  @@ ("Abbey Mortgage Bank" :> "404")
  @@ ("Lagos Building Investment Company Plc." :> "90052")
  @@ ("Mutual Trust Microfinance Bank" :> "090129")
  @@ ("Petra Mircofinance Bank Plc" :> "50746")
  @@ ("Signature Bank Ltd" :> "50453")
  @@ ("TCF MFB" :> "51211")

\* the properties every object literal inherits from Object.prototype
ObjectPrototype ==
  { "constructor", "toString", "toLocaleString", "valueOf", "hasOwnProperty",
    "isPrototypeOf", "propertyIsEnumerable", "__proto__" }

\* obj[name] on an object literal: an own property, else a property inherited
\* from Object.prototype (a function or object, which is truthy), else undefined
Property(obj, name) ==
  IF name \in DOMAIN obj THEN obj[name]
  ELSE IF name \in ObjectPrototype THEN "[inherited " \o name \o "]"
  ELSE Undefined

\* what the gateway's bank/resolve can answer: an account name, a refusal, or
\* no answer at all (fetch or response.json() throws)
GatewayAnswers == {"resolved", "refused", "throw"}

\* GET /verify?accountNumber&bankName
Verify(v, accountNumber, bankName, answer) ==
  /\ verify[v].pc = "idle"
  /\ InOrder(verify, v)
  /\ LET q == [verify[v] EXCEPT !.pc = "done", !.accountNumber = accountNumber,
                                !.bankName = bankName]
         bankCode == Property(bankCodes, bankName)
     IN verify' = [verify EXCEPT ![v] =
          IF ~Truthy(accountNumber) \/ ~Truthy(bankName)
          THEN [q EXCEPT !.code = 400]
          ELSE IF ~Truthy(bankCode) THEN [q EXCEPT !.code = 400]
          ELSE IF ~Truthy(PAYSTACK_SECRET_KEY) THEN [q EXCEPT !.code = 500]
          ELSE [q EXCEPT !.called = TRUE, !.bank_code = bankCode,
                         !.code = CASE answer = "resolved" -> 200
                                    [] answer = "refused" -> 400
                                    [] OTHER -> 500]]
  /\ UNCHANGED <<store, side, call, hook, faults, minted>>

\* the query parameters a client can send
AccountNumbers == {Undefined, "", "0123456789"}
BankNames ==
  { Undefined, "", "GTBank", "GT Bank", "Guaranty Trust Bank", "Zenith Bank",
    "gtbank", "GTBANK", "Gt Bank", "Nowhere Bank", "058",
    "constructor", "toString", "__proto__" }

\* ------------------------------------------------------------ specification

\* the requests the workflow specifications follow: the well-formed request of
\* each route, with store operations and side calls that all succeed
PaidBody == GoodBody("paid")
FreeBody == GoodBody("free")
StartPaid(p) == Start(p, "paid", PaidBody)
StartFree(p) == Start(p, "free", FreeBody)
Transact(p) == \E d \in IssueDraws : TxBody(p, d)
AtomicOk(p) == Atomic(p, "ok")
ReferralGetOk(p) == ReferralGet(p, "ok")
ReferralUpdateOk(p) == ReferralUpdate(p, "ok")
AnalyticsOk(p) == Analytics(p, "ok")
EmailOk(p) == EmailAndReply(p, "ok")
Gateway(h) == \E req \in GatewayEvents : HookReceive(h, req)

\* concurrent paid and free issuance requests and the gateway's deliveries
Next ==
  \/ \E p \in DOMAIN call : StartPaid(p)
  \/ \E p \in DOMAIN call : PollRead(p)
  \/ \E p \in DOMAIN call : Pause(p)
  \/ \E p \in DOMAIN call : StartFree(p)
  \/ \E p \in DOMAIN call : FreeRead(p)
  \/ \E p \in DOMAIN call : Transact(p)
  \/ \E p \in DOMAIN call : TxCommit(p)
  \/ \E p \in DOMAIN call : UserGet(p)
  \/ \E p \in DOMAIN call : HistGet(p)
  \/ \E p \in DOMAIN call : HistSet(p)
  \/ \E p \in DOMAIN call : AttGet(p)
  \/ \E p \in DOMAIN call : AttSet(p)
  \/ \E p \in DOMAIN call : AtomicOk(p)
  \/ \E p \in DOMAIN call : ReferralGetOk(p)
  \/ \E p \in DOMAIN call : ReferralUpdateOk(p)
  \/ \E p \in DOMAIN call : AdminGet(p)
  \/ \E p \in DOMAIN call : AdminSet(p)
  \/ \E p \in DOMAIN call : MarkGenerated(p)
  \/ \E p \in DOMAIN call : AnalyticsOk(p)
  \/ \E p \in DOMAIN call : EmailOk(p)
  \/ \E h \in Hooks : Gateway(h)
  \/ \E h \in Hooks : HookUpdate(h)

Spec == Init /\ [][Next]_vars

\* the paid route alone: requests for the one paid reference, and the
\* gateway's deliveries for it
PaidEvents == {req \in GatewayEvents : req.body.data.reference = PaidRef}

GatewayPaid(h) == \E req \in PaidEvents : HookReceive(h, req)

NextReplay ==
  \/ \E p \in DOMAIN call : StartPaid(p)
  \/ \E p \in DOMAIN call : PollRead(p)
  \/ \E p \in DOMAIN call : Pause(p)
  \/ \E p \in DOMAIN call : Transact(p)
  \/ \E p \in DOMAIN call : TxCommit(p)
  \/ \E p \in DOMAIN call : UserGet(p)
  \/ \E p \in DOMAIN call : HistGet(p)
  \/ \E p \in DOMAIN call : HistSet(p)
  \/ \E p \in DOMAIN call : AttGet(p)
  \/ \E p \in DOMAIN call : AttSet(p)
  \/ \E p \in DOMAIN call : AtomicOk(p)
  \/ \E p \in DOMAIN call : ReferralGetOk(p)
  \/ \E p \in DOMAIN call : ReferralUpdateOk(p)
  \/ \E p \in DOMAIN call : AdminGet(p)
  \/ \E p \in DOMAIN call : AdminSet(p)
  \/ \E p \in DOMAIN call : MarkGenerated(p)
  \/ \E p \in DOMAIN call : AnalyticsOk(p)
  \/ \E p \in DOMAIN call : EmailOk(p)
  \/ \E h \in Hooks : GatewayPaid(h)
  \/ \E h \in Hooks : HookUpdate(h)

SpecReplay == Init /\ [][NextReplay]_vars

\* the same, where every await resolves and the client does send the requests
\* it has left: a step that stays possible is eventually taken
FairReplay == SpecReplay /\ WF_vars(NextReplay)

\* the webhook alone, over every request it can receive
AnyRequest(h) == \E req \in AllHookRequests : HookReceive(h, req)

NextHook ==
  \/ \E h \in Hooks : AnyRequest(h)
  \/ \E h \in Hooks : HookUpdate(h)
  \/ \E h \in Hooks : HookThrows(h)

SpecHook == Init /\ [][NextHook]_vars

\* issuance requests of either route, under every outcome of their four
\* best-effort steps; the store does not throw
AtomicAny(p) == \E o \in Outcomes : Atomic(p, o)
ReferralGetAny(p) == \E o \in {"ok", "throw"} : ReferralGet(p, o)
ReferralUpdateAny(p) == \E o \in {"ok", "throw"} : ReferralUpdate(p, o)
AnalyticsAny(p) == \E o \in Outcomes : Analytics(p, o)
EmailAny(p) == \E o \in Outcomes : EmailAndReply(p, o)

NextBestEffort ==
  \/ \E p \in Calls : StartPaid(p)
  \/ \E p \in Calls : PollRead(p)
  \/ \E p \in Calls : Pause(p)
  \/ \E p \in Calls : StartFree(p)
  \/ \E p \in Calls : FreeRead(p)
  \/ \E p \in Calls : Transact(p)
  \/ \E p \in Calls : TxCommit(p)
  \/ \E p \in Calls : UserGet(p)
  \/ \E p \in Calls : HistGet(p)
  \/ \E p \in Calls : HistSet(p)
  \/ \E p \in Calls : AttGet(p)
  \/ \E p \in Calls : AttSet(p)
  \/ \E p \in Calls : AtomicAny(p)
  \/ \E p \in Calls : ReferralGetAny(p)
  \/ \E p \in Calls : ReferralUpdateAny(p)
  \/ \E p \in Calls : AdminGet(p)
  \/ \E p \in Calls : AdminSet(p)
  \/ \E p \in Calls : MarkGenerated(p)
  \/ \E p \in Calls : AnalyticsAny(p)
  \/ \E p \in Calls : EmailAny(p)

SpecBestEffort == Init /\ [][NextBestEffort]_vars

\* the entry of both routes, over every shape of request body, up to the
\* first read of the Reference
StartAny(p) == \E kind \in {"paid", "free"}, b \in AllBodies : Start(p, kind, b)

NextEntry ==
  \/ \E p \in DOMAIN call : StartAny(p)
  \/ \E p \in DOMAIN call : PollRead(p)
  \/ \E p \in DOMAIN call : FreeRead(p)

SpecEntry == Init /\ [][NextEntry]_vars

\* one issuance request up to the commit of its identifier, over every
\* outcome of the generator's random draws
TransactAny(p) == \E d \in AllDraws : TxBody(p, d)

NextMint ==
  \/ \E p \in TxCalls : StartPaid(p)
  \/ \E p \in TxCalls : PollRead(p)
  \/ \E p \in TxCalls : Pause(p)
  \/ \E p \in TxCalls : StartFree(p)
  \/ \E p \in TxCalls : FreeRead(p)
  \/ \E p \in TxCalls : TransactAny(p)
  \/ \E p \in TxCalls : TxCommit(p)

SpecMint == Init /\ [][NextMint]_vars

\* the bank-resolution handler, over every query and gateway answer
VerifyAny(v) ==
  \E a \in AccountNumbers, n \in BankNames, o \in GatewayAnswers : Verify(v, a, n, o)

NextVerify ==
  \/ \E v \in Lookups : VerifyAny(v)

SpecVerify == Init /\ [][NextVerify]_vars

\* the gateway's deliveries alone, interleaving with each other, with an
\* update that can throw
GatewayDelivery(h) == \E req \in GatewayEvents : HookReceive(h, req)

NextDeliveries ==
  \/ \E h \in Deliveries : GatewayDelivery(h)
  \/ \E h \in Deliveries : HookUpdate(h)
  \/ \E h \in Deliveries : HookThrows(h)

SpecDeliveries == Init /\ [][NextDeliveries]_vars

\* one issuance request whose identifier transaction can fail: the store
\* throws inside it, the gateway's updates of the Reference conflict with it,
\* or the Reference document is deleted by its owner while the request runs
TxThrows(p) == call[p].pc \in {"tx", "commit"} /\ StoreThrows(p)

ReferenceRemoved(r) ==
  /\ Exists(r)
  /\ \E p \in TxCalls : call[p].reference = r /\ call[p].pc \in {"tx", "commit"}
  /\ refs' = [k \in DOMAIN refs \ {r} |-> refs[k]] @@ << >>
  /\ call' = [q \in Calls |-> Touch(call[q], r)] @@ << >>
  /\ UNCHANGED <<users, history, attendees, admin, referral, side, hook, faults, minted, verify>>

NextTxFailure ==
  \/ \E p \in TxCalls : StartPaid(p)
  \/ \E p \in TxCalls : PollRead(p)
  \/ \E p \in TxCalls : Pause(p)
  \/ \E p \in TxCalls : StartFree(p)
  \/ \E p \in TxCalls : FreeRead(p)
  \/ \E p \in TxCalls : Transact(p)
  \/ \E p \in TxCalls : TxCommit(p)
  \/ \E p \in TxCalls : TxThrows(p)
  \/ \E p \in TxCalls : UserGet(p)
  \/ \E p \in TxCalls : HistGet(p)
  \/ \E p \in TxCalls : HistSet(p)
  \/ \E p \in TxCalls : AttGet(p)
  \/ \E p \in TxCalls : AttSet(p)
  \/ \E p \in TxCalls : AtomicOk(p)
  \/ \E p \in TxCalls : ReferralGetOk(p)
  \/ \E p \in TxCalls : ReferralUpdateOk(p)
  \/ \E p \in TxCalls : AdminGet(p)
  \/ \E p \in TxCalls : AdminSet(p)
  \/ \E p \in TxCalls : MarkGenerated(p)
  \/ \E p \in TxCalls : AnalyticsOk(p)
  \/ \E p \in TxCalls : EmailOk(p)
  \/ \E h \in Deliveries : GatewayDelivery(h)
  \/ \E h \in Deliveries : HookUpdate(h)
  \/ \E r \in RefKeys : ReferenceRemoved(r)

SpecTxFailure == Init /\ [][NextTxFailure]_vars

\* the paid route for one reference, where an await on the store can throw:
\* a request that fails with 500, and the request the client sends after it
NextRecovery ==
  \/ \E p \in Calls : StartPaid(p)
  \/ \E p \in Calls : PollRead(p)
  \/ \E p \in Calls : Pause(p)
  \/ \E p \in Calls : Transact(p)
  \/ \E p \in Calls : TxCommit(p)
  \/ \E p \in Calls : UserGet(p)
  \/ \E p \in Calls : HistGet(p)
  \/ \E p \in Calls : HistSet(p)
  \/ \E p \in Calls : AttGet(p)
  \/ \E p \in Calls : AttSet(p)
  \/ \E p \in Calls : AtomicOk(p)
  \/ \E p \in Calls : ReferralGetOk(p)
  \/ \E p \in Calls : ReferralUpdateOk(p)
  \/ \E p \in Calls : AdminGet(p)
  \/ \E p \in Calls : AdminSet(p)
  \/ \E p \in Calls : MarkGenerated(p)
  \/ \E p \in Calls : AnalyticsOk(p)
  \/ \E p \in Calls : EmailOk(p)
  \/ \E p \in Calls : StoreThrows(p)

SpecRecovery == Init /\ [][NextRecovery]_vars

\* issuance requests of either route for a user whose document is created
\* (by the sign-up flow, outside these routes) while the requests run
UserCreated(u) ==
  /\ u \notin users
  /\ users' = users \cup {u}
  /\ UNCHANGED <<refs, history, attendees, admin, referral, side, call, hook, faults,
                 minted, verify>>

NextSignup ==
  \/ \E p \in Calls : StartPaid(p)
  \/ \E p \in Calls : PollRead(p)
  \/ \E p \in Calls : Pause(p)
  \/ \E p \in Calls : StartFree(p)
  \/ \E p \in Calls : FreeRead(p)
  \/ \E p \in Calls : Transact(p)
  \/ \E p \in Calls : TxCommit(p)
  \/ \E p \in Calls : UserGet(p)
  \/ \E p \in Calls : HistGet(p)
  \/ \E p \in Calls : HistSet(p)
  \/ \E p \in Calls : AttGet(p)
  \/ \E p \in Calls : AttSet(p)
  \/ \E p \in Calls : AtomicOk(p)
  \/ \E p \in Calls : ReferralGetOk(p)
  \/ \E p \in Calls : ReferralUpdateOk(p)
  \/ \E p \in Calls : AdminGet(p)
  \/ \E p \in Calls : AdminSet(p)
  \/ \E p \in Calls : MarkGenerated(p)
  \/ \E p \in Calls : AnalyticsOk(p)
  \/ \E p \in Calls : EmailOk(p)
  \/ \E u \in {TheUser} : UserCreated(u)

SpecSignup == Init /\ [][NextSignup]_vars


\* -------------------------------------------------------------------- claims

\* the positions of a request that has completed its identifier transaction
AfterTx ==
  {"user", "histGet", "histSet", "attGet", "attSet", "atomic", "refGet", "refUpd",
   "admGet", "admSet", "flag", "analytics", "email"}

\* request p has completed the identifier transaction (and perhaps answered)
Holds(p) ==
  \/ call[p].pc \in AfterTx
  \/ Done(p) /\ (call[p].code = 200 \/ call[p].error = "User Not Found")

\* request p has passed its status check
Passed(p) == call[p].pc \in {"tx", "commit"} \/ Holds(p)

\* the ticket records whose ticketReference is r, per location
HistoryOf(r) == {k \in DOMAIN history : history[k].ticket.ticketReference = r}
AttendeesOf(r) == {k \in DOMAIN attendees : attendees[k].ticketReference = r}
AdminOf(r) == {k \in DOMAIN admin : admin[k].reference = r}

\* the records and outbound calls request p has produced
WrittenBy(p) ==
  {k \in DOMAIN history : history[k].ticket.createdAt = Now(p)} \cup
  {k \in DOMAIN attendees : attendees[k].createdAt = Now(p)} \cup
  {k \in DOMAIN admin : admin[k].date = Now(p)}

SentBy(p) == {m \in side : m.by = p}

\* C1: once a Reference record's ticketId has been set, no step of any issuance
\* request or webhook delivery changes it or clears it.
C1_TicketIdAssignedOnce ==
  [][\A r \in DOMAIN refs :
       Truthy(refs[r].ticketId) => refs'[r].ticketId = refs[r].ticketId]_vars

\* C1 witness: a reference whose ticketId was set, that two requests have been
\* answered 200 for, and that a webhook delivery has updated since it was created.
C1_Witness ==
  \E r \in DOMAIN refs :
    /\ Truthy(refs[r].ticketId)
    /\ refs[r].ticketGenerated
    /\ refs[r].paystackEvent # Undefined
    /\ \A p \in DOMAIN call :
         Done(p) /\ call[p].code = 200 /\ call[p].reference = r

\* C2: for each reference at most one transaction commits a newly generated
\* identifier, and every request that has completed its transaction holds, and
\* returns in its 200 response, the identifier stored on the Reference record.
C2_OneIdentifierPerReference ==
  /\ \A r \in DOMAIN refs : minted[r] <= 1
  /\ \A p \in DOMAIN call :
       Holds(p) =>
         /\ call[p].ticketId = refs[call[p].reference].ticketId
         /\ Truthy(call[p].ticketId)
         /\ call[p].code = 200 => call[p].body.ticketId = call[p].ticketId

\* C2 witness: two requests for one reference ran their transactions
\* concurrently; one committed, the other was run again by the store and has
\* just completed holding the committed identifier.
C2_Witness ==
  \E p, q \in DOMAIN call :
    /\ p # q
    /\ call[p].reference = call[q].reference
    /\ call[p].pc = "user" /\ call[p].tries > 0
    /\ Holds(q)
    /\ minted[call[p].reference] = 1
    /\ call[p].ticketId = call[q].ticketId

\* C3: when two paid requests for one reference run one after the other, both
\* read status successful, the user exists and neither request hits a store
\* error, both are answered 200 with the same ticketId, and each of the three
\* locations holds exactly one record for the reference, none written by the
\* second request.
C3_ReplayIsIdempotent ==
  \A p, q \in DOMAIN call :
    ( /\ Done(p) /\ Done(q) /\ q \in call[p].prior
      /\ call[p].kind = "paid" /\ call[q].kind = "paid"
      /\ call[p].reference = call[q].reference
      /\ call[p].paymentData.status = "successful"
      /\ call[q].paymentData.status = "successful"
      /\ TheUser \in users
      /\ call[p].code # 500 /\ call[q].code # 500 )
    => /\ call[p].code = 200 /\ call[q].code = 200
       /\ call[p].body.ticketId = call[q].body.ticketId
       /\ Cardinality(HistoryOf(call[p].reference)) = 1
       /\ Cardinality(AttendeesOf(call[p].reference)) = 1
       /\ Cardinality(AdminOf(call[p].reference)) = 1
       /\ WrittenBy(p) = {}

\* C3 witness: the second of two sequential paid requests has been answered 200.
C3_Witness ==
  \E p, q \in DOMAIN call :
    /\ Done(p) /\ Done(q) /\ q \in call[p].prior
    /\ call[p].code = 200 /\ call[q].code = 200
    /\ call[p].kind = "paid" /\ call[q].kind = "paid"
    /\ Cardinality(WrittenBy(q)) = 3

\* C4: a paid request is past its status check, or has written anything, only
\* if its last status read returned successful; a free request only if its
\* read returned status settled and vendor "free ticket".
C4_StatusGate ==
  \A p \in DOMAIN call :
    (Passed(p) \/ call[p].effects > 0 \/ WrittenBy(p) # {}) =>
      /\ call[p].kind = "paid" => call[p].paymentData.status = "successful"
      /\ call[p].kind = "free" =>
           /\ call[p].paymentData.status = "settled"
           /\ call[p].paymentData.vendor = "free ticket"

\* C4 witness: a paid and a free request have both written ticket records, and
\* the paid reference's status had to be changed by a webhook first.
C4_Witness ==
  \E p, q \in DOMAIN call :
    /\ call[p].kind = "paid" /\ WrittenBy(p) # {}
    /\ call[q].kind = "free" /\ WrittenBy(q) # {}
    /\ refs[PaidRef].paystackEvent = "charge.success"


\* C5 (as claimed): a paid request reads the Reference status at most
\* maxAttempts times.
C5_AtMostThreeReads ==
  \A p \in DOMAIN call : call[p].kind = "paid" => call[p].reads <= maxAttempts

\* every read of request p so far returned pending (attempts counts exactly those)
AllPending(p) ==
  /\ call[p].kind = "paid"
  /\ call[p].reads >= 1
  /\ call[p].attempts = call[p].reads

\* C6: a paid request all of whose reads return pending pauses once between
\* consecutive reads, ends after exactly maxAttempts reads with 400 "Payment
\* Pending", and has written nothing and called nothing.
C6_PendingExhausted ==
  \A p \in DOMAIN call :
    AllPending(p) =>
      /\ call[p].pc = "poll" => call[p].sleeps = call[p].reads
      /\ call[p].pc = "sleep" => call[p].sleeps = call[p].reads - 1
      /\ Done(p) =>
           /\ call[p].reads = maxAttempts /\ call[p].sleeps = maxAttempts - 1
           /\ call[p].code = 400 /\ call[p].error = "Payment Pending"
      /\ call[p].effects = 0 /\ WrittenBy(p) = {} /\ SentBy(p) = {}
      /\ call[p].ticketId = Null

\* C6 witness: a request answered "Payment Pending" while the other request
\* for the same reference, started after a webhook, has gone on to issue.
C6_Witness ==
  \E p \in DOMAIN call :
    /\ Done(p) /\ call[p].error = "Payment Pending" /\ call[p].reads = maxAttempts
    /\ refs[call[p].reference].ticketGenerated

\* C7: a paid request that has read status failed is answered 400 "Payment
\* Failed" on that read, and has written nothing and called nothing.
C7_FailedWritesNothing ==
  \A p \in DOMAIN call :
    (call[p].kind = "paid" /\ call[p].paymentData.status = "failed") =>
      /\ Done(p) /\ call[p].code = 400 /\ call[p].error = "Payment Failed"
      /\ call[p].effects = 0 /\ WrittenBy(p) = {} /\ SentBy(p) = {}
      /\ call[p].ticketId = Null

\* C7 witness: a request read pending first, then failed after the webhook's
\* charge.failed, and was answered "Payment Failed".
C7_Witness ==
  \E p \in DOMAIN call :
    /\ Done(p) /\ call[p].error = "Payment Failed"
    /\ call[p].reads = 2 /\ call[p].attempts = 1
    /\ refs[call[p].reference].paystackEvent = "charge.failed"

\* delivery h is received in this step
Arrives(h) == hook[h].pc = "idle" /\ hook'[h].pc # "idle"

\* the request carries the HMAC of its body under the configured secret
CorrectlySigned(req) == req.sig = Hmac(PAYSTACK_SECRET_KEY, req.body)

\* C8: a step of a delivery whose signature is not the HMAC of its body under
\* the configured secret (or is absent) answers 401 on arrival and leaves every
\* Reference record as it was; such a delivery takes no later step.
C8_BadSignatureRejected ==
  [][\A h \in DOMAIN hook :
       /\ (Arrives(h) /\ ~CorrectlySigned(hook'[h].req)) =>
            /\ hook'[h].pc = "done" /\ hook'[h].code = 401
            /\ refs' = refs
       /\ (hook[h].pc # "idle" /\ ~CorrectlySigned(hook[h].req)) =>
            hook'[h] = hook[h]]_vars

\* C8 witness: a charge.success ticket purchase for an existing reference,
\* signed with another key, was answered 401.
C8_Witness ==
  \E h \in DOMAIN hook :
    /\ hook[h].pc = "done" /\ hook[h].code = 401
    /\ hook[h].req.body = HookBody("charge.success",
                                   HookData(PaidRef, TRUE, TicketPurchase, "510000"))
    /\ hook[h].req.sig = Hmac("sk_test", hook[h].req.body)
    /\ refs[PaidRef].paystackEvent = Undefined

\* the delivery is a correctly signed charge.success or charge.failed
SignedCharge(req) == CorrectlySigned(req) /\ req.body.event \in HandledEvents

\* C9 (as claimed): a signed charge event without a reference is answered 400
\* and one whose reference has no record is answered 404, whatever its
\* metadata, and the store is not changed.
C9_UnknownAlways404 ==
  [][\A h \in DOMAIN hook :
       (Arrives(h) /\ SignedCharge(hook'[h].req)) =>
         LET r == HookReference(hook'[h].req.body.data)
         IN /\ ~Truthy(r) => hook'[h].code = 400 /\ refs' = refs
            /\ (Truthy(r) /\ r \notin DOMAIN refs) =>
                 hook'[h].code = 404 /\ refs' = refs]_vars

\* C9 (amended): a signed charge event without a reference is answered 400
\* whatever its metadata; one whose reference has no record is answered 404
\* when its transaction type is ticket_purchase, and 200 otherwise; the store
\* is not changed in any of these cases.
C9_UnknownReference ==
  [][\A h \in DOMAIN hook :
       (Arrives(h) /\ SignedCharge(hook'[h].req)) =>
         LET r == HookReference(hook'[h].req.body.data)
             t == TransactionType(hook'[h].req.body.data)
         IN /\ ~Truthy(r) =>
                 hook'[h].pc = "done" /\ hook'[h].code = 400 /\ refs' = refs
            /\ (Truthy(r) /\ r \notin DOMAIN refs) =>
                 /\ hook'[h].pc = "done" /\ refs' = refs
                 /\ hook'[h].code = IF t = "ticket_purchase" THEN 404 ELSE 200]_vars

\* C9 witness: a signed charge.failed ticket purchase for a reference without
\* a record was answered 404.
C9_Witness ==
  \E h \in DOMAIN hook :
    /\ hook[h].pc = "done" /\ hook[h].code = 404
    /\ CorrectlySigned(hook[h].req)
    /\ hook[h].req.body.event = "charge.failed"
    /\ hook[h].req.body.data.reference = UnknownRef

\* C10 (as claimed): a signed event that is no charge event, and a signed
\* charge event whose transaction type is not ticket_purchase, are answered 200
\* and change no Reference record.
C10_OtherAlways200 ==
  [][\A h \in DOMAIN hook :
       ( /\ Arrives(h) /\ CorrectlySigned(hook'[h].req)
         /\ \/ hook'[h].req.body.event \notin HandledEvents
            \/ TransactionType(hook'[h].req.body.data) # "ticket_purchase" )
       => hook'[h].pc = "done" /\ hook'[h].code = 200 /\ refs' = refs]_vars

\* C10 (amended): a signed event that is no charge event, and a signed charge
\* event that carries a reference and whose transaction type is not
\* ticket_purchase, are answered 200 and change no Reference record.
C10_OtherEventsAcknowledged ==
  [][\A h \in DOMAIN hook :
       ( /\ Arrives(h) /\ CorrectlySigned(hook'[h].req)
         /\ \/ hook'[h].req.body.event \notin HandledEvents
            \/ /\ Truthy(HookReference(hook'[h].req.body.data))
               /\ TransactionType(hook'[h].req.body.data) # "ticket_purchase" )
       => hook'[h].pc = "done" /\ hook'[h].code = 200 /\ refs' = refs]_vars

\* C10 witness: a signed charge.success for an existing reference whose first
\* "type" field is donation was answered 200 without being applied.
C10_Witness ==
  \E h \in DOMAIN hook :
    /\ hook[h].pc = "done" /\ hook[h].code = 200 /\ ~hook[h].wrote
    /\ CorrectlySigned(hook[h].req)
    /\ hook[h].req.body.event = "charge.success"
    /\ hook[h].req.body.data =
         HookData(PaidRef, TRUE,
                  <<Field("type", "donation"), Field("type", "ticket_purchase")>>,
                  "510000")
    /\ refs[PaidRef].paystackEvent = Undefined


\* delivery h applies its update in this step
Applies(h) == hook[h].pc = "update" /\ hook'[h].pc = "done" /\ hook'[h].wrote

\* the status a charge event stands for
StatusOf(event) == IF event = "charge.success" THEN "successful" ELSE "failed"

\* C11: the step in which a signed ticket_purchase charge event for an
\* existing reference is applied answers 200 and leaves the reference's status
\* at successful for charge.success and failed for charge.failed; a step in
\* which no delivery is applied leaves every status as it was, so the stored
\* status is always that of the event applied last.
C11_LastAppliedEventWins ==
  [][/\ \A h \in DOMAIN hook :
          Applies(h) =>
            LET body == hook[h].req.body
            IN /\ hook'[h].code = 200
               /\ refs'[body.data.reference].status = StatusOf(body.event)
               /\ refs'[body.data.reference].paystackEvent = body.event
     /\ (\A h \in DOMAIN hook : ~Applies(h)) =>
          \A r \in DOMAIN refs : refs'[r].status = refs[r].status]_vars

\* C11 witness: a charge.success and then a charge.failed were received for
\* the paid reference, both were applied, and the update of the first was
\* applied last.
C11_Witness ==
  /\ \A h \in {1, 2} :
       /\ hook[h].pc = "done" /\ hook[h].wrote /\ hook[h].code = 200
       /\ hook[h].req.body.data.reference = PaidRef
  /\ hook[1].req.body.event = "charge.success"
  /\ hook[2].req.body.event = "charge.failed"
  /\ refs[PaidRef].status = "successful"
  /\ refs[PaidRef].paystackEvent = "charge.success"


\* request p repeats a request for its reference that was answered 200
Replays(p) ==
  \E q \in call[p].prior :
    call[q].reference = call[p].reference /\ call[q].code = 200

\* C12 (as claimed): the referral step of a request that repeats a successful
\* issuance leaves the referral document's totalTickets and usages as they were.
C12_ReplayLeavesReferral ==
  [][\A p \in DOMAIN call :
       (Replays(p) /\ call[p].pc = "refUpd" /\ call'[p].pc # "refUpd") =>
         /\ referral'.totalTickets = referral.totalTickets
         /\ referral'.usages = referral.usages]_vars


\* the 200 body of a request for reference r, from the stored Reference alone
StoredBody(p) ==
  LET r == call[p].reference
      paid == call[p].kind = "paid"
  IN [ success |-> TRUE, ticketId |-> refs[r].ticketId, ticketReference |-> r,
       ticketPrice |-> IF paid THEN refs[r].ticketPrice ELSE 0,
       totalAmount |-> IF paid THEN refs[r].totalAmount ELSE 0,
       referralUsed |-> Truthy(refs[r].referralCode) ]

\* C13 (as claimed): whatever the outcomes of the inventory call, the referral update, the
\* analytics call and the email call, a request that passed the status check
\* and found its user ends with the three ticket records written, the
\* completion flag set and a 200 whose body does not depend on those outcomes.
C13_BestEffortNeverSurfaces ==
  \A p \in DOMAIN call :
    (Done(p) /\ Truthy(call[p].ticketId) /\ call[p].paymentData.userId \in users) =>
      LET r == call[p].reference
      IN /\ call[p].code = 200
         /\ call[p].body = StoredBody(p)
         /\ HistoryOf(r) # {} /\ AttendeesOf(r) # {} /\ AdminOf(r) # {}
         /\ refs[r].ticketGenerated

\* C14: a request whose Reference names a user without a document is answered
\* 404 "User Not Found" by its user lookup; it has written no ticket record,
\* made no inventory, referral, analytics or email call, and ticketGenerated
\* is not set.
C14_UserNotFoundStops ==
  \A p \in DOMAIN call :
    (Holds(p) /\ call[p].paymentData.userId \notin users /\ call[p].pc # "user") =>
      /\ Done(p) /\ call[p].code = 404 /\ call[p].error = "User Not Found"
      /\ WrittenBy(p) = {} /\ SentBy(p) = {}
      /\ HistoryOf(call[p].reference) = {}
      /\ AttendeesOf(call[p].reference) = {}
      /\ AdminOf(call[p].reference) = {}
      /\ referral.totalTickets = 0 /\ referral.usages = {}
      /\ ~refs[call[p].reference].ticketGenerated
      /\ call[p].effects <= 1

\* C14 witness: a paid and a free request were both answered "User Not Found".
C14_Witness ==
  \E p, q \in DOMAIN call :
    /\ call[p].kind = "paid" /\ call[q].kind = "free"
    /\ \A x \in {p, q} :
         Done(x) /\ call[x].code = 404 /\ call[x].error = "User Not Found"


\* the identifier transaction of request p fails in this step
TxFails(p) == call[p].pc \in {"tx", "commit"} /\ call'[p].pc = "done"

\* C15: a request leaves its identifier transaction without an identifier only
\* with a 500: when the Reference document is missing inside the transaction
\* and when its write is rejected for good, the request is answered 500; a
\* request whose transaction failed persisted no identifier, wrote no ticket
\* record, set no completion flag and made no side call.
C15_FailedTransactionStops ==
  [][\A p \in DOMAIN call :
       /\ (call[p].pc = "tx" /\ call[p].reference \notin DOMAIN refs
             /\ call'[p].pc # "tx") => TxFails(p)
       /\ (call[p].pc = "commit" /\ call[p].pending /\ call[p].stale
             /\ call'[p].pc \notin {"commit", "tx"}) => TxFails(p)
       /\ TxFails(p) =>
            /\ call'[p].code = 500
            /\ call'[p].effects = 0
            /\ refs' = refs
            /\ (WrittenBy(p) = {})'
            /\ (SentBy(p) = {})']_vars

\* C15 witness: the transaction of a request was rejected because the
\* gateway's updates kept changing the Reference, and the request was
\* answered 500 with no store operation having thrown.
C15_Witness ==
  \E p \in DOMAIN call :
    /\ Done(p) /\ call[p].code = 500 /\ call[p].pending /\ call[p].stale
    /\ call[p].tries = MaxTxRetries
    /\ faults = 0
    /\ Exists(call[p].reference)
    /\ ~Truthy(refs[call[p].reference].ticketId)


\* the body b is missing or malformed for the route: no body, no reference, a
\* reference that is not a string, or one without the route's prefix
Malformed(kind, b) ==
  \/ ~b.present
  \/ b.reference.t # "string"
  \/ ~StartsWith(b.reference.v, RoutePrefix(kind))

\* C16 (as claimed): a request whose input is missing or malformed is answered
\* 400 and has performed no read or write on the store and no outbound call.
C16_MalformedIs400 ==
  \A p \in DOMAIN call :
    (call[p].pc # "idle" /\ Malformed(call[p].kind, call[p].input)) =>
      /\ Done(p) /\ call[p].code = 400
      /\ call[p].reads = 0 /\ call[p].effects = 0 /\ SentBy(p) = {}


\* the money fields of a ticket record are all zero
ZeroPriced(t) ==
  /\ t.originalPrice = 0 /\ t.ticketPrice = 0
  /\ t.transactionFee = 0 /\ t.totalAmount = 0

Digits == {"0", "1", "2", "3", "4", "5", "6", "7", "8", "9"}
Uppercase ==
  {"A", "B", "C", "D", "E", "F", "G", "H", "I", "J", "K", "L", "M",
   "N", "O", "P", "Q", "R", "S", "T", "U", "V", "W", "X", "Y", "Z"}

\* the positions of the string s that hold a character of the set chars
PositionsIn(s, chars) == {i \in 1..Len(s) : SubSeq(s, i, i) \in chars}

\* "SPTX-TX-" followed by exactly 10 characters, 8 of them decimal digits and
\* 2 of them uppercase letters
TenCharacterId(id) ==
  /\ Len(id) = Len("SPTX-TX-") + 10
  /\ StartsWith(id, "SPTX-TX-")
  /\ LET tail == SubSeq(id, Len("SPTX-TX-") + 1, Len(id))
     IN /\ Cardinality(PositionsIn(tail, Digits)) = 8
        /\ Cardinality(PositionsIn(tail, Uppercase)) = 2

\* C18 (as claimed): every identifier generateTicketId returns is "SPTX-TX-"
\* followed by exactly 10 characters: 8 decimal digits and 2 letters A-Z.
C18_TenCharacterId ==
  \A p \in DOMAIN call :
    (call[p].pc = "commit" /\ call[p].pending) => TenCharacterId(call[p].ticketId)


\* C19 (as claimed): GTBank, GT Bank and Guaranty Trust Bank all map to code
\* 058, and a request whose bankName is not a key of the static table is
\* answered 400 without a call to the payment gateway.
C19_UnlistedBankIs400 ==
  \A v \in DOMAIN verify :
    verify[v].pc = "done" =>
      /\ (verify[v].called
            /\ verify[v].bankName \in {"GTBank", "GT Bank", "Guaranty Trust Bank"})
           => verify[v].bank_code = "058"
      /\ verify[v].bankName \notin DOMAIN bankCodes =>
           verify[v].code = 400 /\ ~verify[v].called


\* C20 (as claimed): no two distinct Reference records hold the same ticketId.
C20_IdentifierNamesOneReference ==
  \A r1, r2 \in DOMAIN refs :
    (r1 # r2 /\ Truthy(refs[r1].ticketId)) => refs[r1].ticketId # refs[r2].ticketId


\* every document of the collection keeps its content in this step
Kept(coll, collNext) ==
  \A k \in DOMAIN coll : k \in DOMAIN collNext /\ collNext[k] = coll[k]

\* C21 (as claimed): under any interleaving of issuance requests for one
\* reference, a ticket record that exists at one of the three locations is
\* never overwritten: it keeps the content of the first write.
C21_FirstWriteWins ==
  [][/\ Kept(history, history')
     /\ Kept(attendees, attendees')
     /\ Kept(admin, admin')]_vars


\* request p makes its inventory call or its referral update in this step
SideStep(p) ==
  call[p].pc \in {"atomic", "refUpd"} /\ call'[p].pc # call[p].pc

\* the ticket record of request p exists at the location
InHistory(p) == HistoryKey(call[p]) \in DOMAIN history
InAttendees(p) == AttendeeKey(call[p]) \in DOMAIN attendees
InAdmin(p) == AdminKey(call[p]) \in DOMAIN admin

\* C22 (as claimed): a request makes its inventory call and its referral
\* update only after the ticket record exists in all three locations.
C22_SideCallsAfterThreeWrites ==
  [][\A p \in DOMAIN call :
       SideStep(p) => InHistory(p) /\ InAttendees(p) /\ InAdmin(p)]_vars

\* C22 (amended): a request makes its inventory call and its referral update
\* only after the ticket record exists in the history and attendee locations;
\* it looks at and writes the admin ledger only after its inventory call.
C22_SideCallsAfterTwoWrites ==
  [][\A p \in DOMAIN call :
       /\ SideStep(p) => InHistory(p) /\ InAttendees(p)
       /\ (call[p].pc \in {"admGet", "admSet"} /\ call'[p].pc # call[p].pc) =>
            \E m \in SentBy(p) : m.to = "inventory"]_vars

\* C22 witness: a request has made its inventory call and its referral update
\* while the admin ledger holds no record of its ticket.
C22_Witness ==
  \E p \in DOMAIN call :
    /\ call[p].pc = "admGet"
    /\ \E m \in SentBy(p) : m.to = "inventory"
    /\ referral.totalTickets = 1
    /\ InHistory(p) /\ InAttendees(p) /\ ~InAdmin(p)


\* a ticket record keyed by the ticketId of Reference r exists at all three
\* locations
RecordedEverywhere(r) ==
  LET d == refs[r]
  IN /\ <<d.userId, d.ticketId>> \in DOMAIN history
     /\ <<d.eventCreatorId, d.eventId, d.ticketId>> \in DOMAIN attendees
     /\ <<d.eventId, d.ticketId>> \in DOMAIN admin

\* C23: a Reference record with ticketGenerated set has a ticketId, and a
\* ticket record keyed by that ticketId exists at each of the three locations;
\* the step that sets the flag is taken by a request whose three records exist.
C23_FlagMeansRecorded ==
  /\ \A r \in DOMAIN refs :
       refs[r].ticketGenerated => Truthy(refs[r].ticketId) /\ RecordedEverywhere(r)
  /\ \A p \in DOMAIN call :
       call[p].pc \in {"flag", "analytics", "email"} =>
         /\ InHistory(p) /\ InAttendees(p) /\ InAdmin(p)
         /\ call[p].ticketId = refs[call[p].reference].ticketId

\* C23 witness: a reference has its flag set with its three records written,
\* and a second request for it is about to set the flag again.
C23_Witness ==
  \E p \in DOMAIN call :
    /\ call[p].pc = "flag"
    /\ refs[call[p].reference].ticketGenerated
    /\ RecordedEverywhere(call[p].reference)


\* request q was answered "Payment Pending", the gateway's charge.success for
\* the reference has been applied since, and the client has not yet sent
\* request p
RetryAfterSuccess(p, q) ==
  /\ Done(q) /\ call[q].kind = "paid" /\ call[q].error = "Payment Pending"
  /\ call[p].pc = "idle"
  /\ refs[PaidRef].status = "successful"
  /\ refs[PaidRef].paystackEvent = "charge.success"
  /\ TheUser \in users

\* request p was answered 200 with the ticketId of the reference, whose
\* completion flag is set
Obtained(p) ==
  /\ Done(p) /\ call[p].code = 200
  /\ Truthy(call[p].body.ticketId)
  /\ call[p].body.ticketId = refs[PaidRef].ticketId
  /\ refs[PaidRef].ticketGenerated

MatchesRuns(id, lo, hi) ==
  /\ StartsWith(id, "SPTX-TX-")
  /\ LET tail == SubSeq(id, Len("SPTX-TX-") + 1, Len(id))
         n == Len(tail)
     IN \E i, j \in 1..n :
          /\ i < j
          /\ PositionsIn(tail, Uppercase) = {i, j}
          /\ PositionsIn(tail, Digits) = (1..n) \ {i, j}
          /\ i - 1 \in lo[1]..hi[1]
          /\ j - i - 1 \in lo[2]..hi[2]
          /\ n - j \in lo[3]..hi[3]

\* the identifier request p has generated and not yet committed
Minting(p) == call[p].pc = "commit" /\ call[p].pending

EnablingStatus(r) == IF r = PaidRef THEN "successful" ELSE "settled"

\* C26 (as claimed): under any interleaving of issuance requests and webhook
\* deliveries, a Reference record with ticketGenerated set has status
\* successful (paid) or settled (free).
C26_IssuedKeepsStatus ==
  \A r \in DOMAIN refs : refs[r].ticketGenerated => refs[r].status = EnablingStatus(r)


\* the fields of a Reference the webhook writes
PaymentFields == {"status", "updatedAt", "paystackEvent", "transactionType", "amount"}

\* C27: the step in which a delivery is applied changes only the status,
\* updatedAt and payment-metadata fields of the Reference it names, and leaves
\* every other Reference and all ticket records as they were; the steps of
\* issuance requests (the identifier transaction and the completion-flag
\* update among them) leave the status and payment metadata as they were.
C27_WebhookWritesPaymentFieldsOnly ==
  [][/\ \A h \in DOMAIN hook :
          Applies(h) =>
            LET r == hook[h].req.body.data.reference
            IN /\ DOMAIN refs' = DOMAIN refs
               /\ \A f \in DOMAIN refs[r] \ PaymentFields : refs'[r][f] = refs[r][f]
               /\ \A k \in DOMAIN refs \ {r} : refs'[k] = refs[k]
               /\ history' = history /\ attendees' = attendees /\ admin' = admin
               /\ referral' = referral /\ users' = users
     /\ (\A h \in DOMAIN hook : ~Applies(h)) =>
          \A r \in DOMAIN refs, f \in PaymentFields \ {"updatedAt"} :
            refs'[r][f] = refs[r][f]]_vars

\* C27 witness: a delivery was applied between the read and the commit of a
\* request's identifier transaction, and both writes are on the Reference.
C27_Witness ==
  \E p \in DOMAIN call :
    /\ call[p].pc = "user" /\ call[p].tries > 0
    /\ \A q \in DOMAIN call \ {p} : call[q].pc = "idle"
    /\ \E h \in Hooks : hook[h].wrote /\ hook[h].req.body.data.reference = call[p].reference
    /\ refs[call[p].reference].ticketId = call[p].ticketId
    /\ refs[call[p].reference].paystackEvent # Undefined


\* request q failed with 500 after it had written a ticket record
FailedPartWay(q) == Done(q) /\ call[q].code = 500 /\ WrittenBy(q) # {}

\* the requests that had ended with such a failure when request p arrived
FailedBefore(p) ==
  {q \in call[p].prior : FailedPartWay(q) /\ call[q].reference = call[p].reference}

\* request p was sent after such a failure and runs on its own: every other
\* request had ended when it arrived
Recovers(p) ==
  /\ call[p].pc # "idle"
  /\ FailedBefore(p) # {}
  /\ \A x \in DOMAIN call \ {p} : call[x].pc = "idle" \/ x \in call[p].prior

\* the ticket records written by the requests of the set qs
WrittenByAll(qs) == UNION {WrittenBy(q) : q \in qs}

\* C28: a request for a reference that follows a request which failed with
\* 500 after writing some of the ticket records reuses that request's
\* ticketId, overwrites no record that exists, and, when it is answered 200,
\* has written exactly the locations that were missing: every location holds
\* one record, written by it or by a request before it, and ticketGenerated
\* is set.
C28_RetryCompletesPartialIssue ==
  /\ [](\A p \in Calls :
          Recovers(p) =>
            /\ Holds(p) => \A q \in FailedBefore(p) : call[p].ticketId = call[q].ticketId
            /\ Done(p) => call[p].code \in {200, 500}
            /\ (Done(p) /\ call[p].code = 200) =>
                 /\ InHistory(p) /\ InAttendees(p) /\ InAdmin(p)
                 /\ Cardinality(WrittenBy(p) \cup WrittenByAll(call[p].prior)) = 3
                 /\ Cardinality(WrittenBy(p)) + Cardinality(WrittenByAll(call[p].prior)) = 3
                 /\ refs[call[p].reference].ticketGenerated)
  /\ [][\A p \in Calls :
          (Recovers(p) /\ call'[p] # call[p]) =>
            /\ Kept(history, history')
            /\ Kept(attendees, attendees')
            /\ Kept(admin, admin')]_vars

\* C28 witness: a request failed with 500 having written the history and
\* attendee records, and the next request was answered 200 having written the
\* admin record alone.
C28_Witness ==
  \E p, q \in DOMAIN call :
    /\ q \in FailedBefore(p) /\ Cardinality(WrittenBy(q)) = 2
    /\ Done(p) /\ call[p].code = 200
    /\ Cardinality(WrittenBy(p)) = 1
    /\ AdminKey(call[p]) \in WrittenBy(p)
    /\ refs[call[p].reference].ticketGenerated


\* request q was answered 404 "User Not Found"
UserNotFound(q) == Done(q) /\ call[q].code = 404 /\ call[q].error = "User Not Found"

\* C29: a request that ends in 404 "User Not Found" leaves its ticketId and
\* ticketIdGeneratedAt on the Reference, and a later request for the
\* reference that is answered 200 returns that same ticketId.
C29_IdentifierSurvivesUserNotFound ==
  \A q \in DOMAIN call :
    UserNotFound(q) =>
      LET d == refs[call[q].reference]
      IN /\ Truthy(d.ticketId) /\ d.ticketId = call[q].ticketId
         /\ d.ticketIdGeneratedAt # Undefined
         /\ WrittenBy(q) = {}
         /\ \A p \in DOMAIN call :
              ( /\ q \in call[p].prior /\ call[p].reference = call[q].reference
                /\ Done(p) /\ call[p].code = 200 )
              => call[p].body.ticketId = call[q].ticketId

\* C29 witness: a request generated the identifier and was answered "User Not
\* Found"; the user document was created, and the next request for the
\* reference was answered 200.
C29_Witness ==
  \E p, q \in DOMAIN call :
    /\ UserNotFound(q) /\ q \in call[p].prior
    /\ call[p].reference = call[q].reference
    /\ minted[call[q].reference] = 1
    /\ Done(p) /\ call[p].code = 200
    /\ call[p].body.ticketId = call[q].ticketId
    /\ TheUser \in users


\* request p, which has read pending before, reads the status again in this step
ReadsAgain(p) ==
  /\ call[p].pc = "poll" /\ call[p].attempts >= 1
  /\ call'[p].reads = call[p].reads + 1

\* the ticket records request p has written are those built from its paymentData
BuiltFromSnapshot(p) ==
  /\ \A k \in DOMAIN history :
       history[k].ticket.createdAt = Now(p) => history[k] = HistoryData(p, call[p])
  /\ \A k \in DOMAIN attendees :
       attendees[k].createdAt = Now(p) => attendees[k] = TicketData(p, call[p])
  /\ \A k \in DOMAIN admin :
       admin[k].date = Now(p) => admin[k] = AdminData(p, call[p])

\* C30: a paid request that has read pending and reads again acts on the
\* value of that read: its paymentData becomes the Reference as it is then,
\* it goes on to the identifier transaction when the status is successful and
\* is answered 400 "Payment Failed", having written nothing, when it is
\* failed; the ticket records a request writes are built from the paymentData
\* of its last read, whose status was successful.
C30_ActsOnLatestRead ==
  /\ [][\A p \in Calls :
          ReadsAgain(p) =>
            LET d == refs[call[p].reference]
            IN /\ call'[p].paymentData = Snapshot(d)
               /\ d.status = "successful" => call'[p].pc = "tx"
               /\ d.status = "failed" =>
                    /\ call'[p].pc = "done" /\ call'[p].code = 400
                    /\ call'[p].error = "Payment Failed"
                    /\ call'[p].effects = 0
                    /\ (WrittenBy(p) = {})' /\ (SentBy(p) = {})'
                    /\ store' = store]_vars
  /\ [](\A p \in Calls :
          call[p].kind = "paid" =>
            /\ BuiltFromSnapshot(p)
            /\ WrittenBy(p) # {} => call[p].paymentData.status = "successful")

\* C30 witness: a request read pending, the gateway's charge.success was
\* applied during its pause, and its second read sent it on to the identifier
\* transaction.
C30_Witness ==
  \E p \in DOMAIN call :
    /\ call[p].pc = "tx" /\ call[p].tries = 0
    /\ call[p].reads = 2 /\ call[p].attempts = 1 /\ call[p].sleeps = 1
    /\ call[p].paymentData.status = "successful"
    /\ refs[call[p].reference].paystackEvent = "charge.success"

====
